---------------------------- MODULE Spec2Model ----------------------------
(***************************************************************************)
(* A model of jdprocess (src/JumpDiff/jdprocess.py), the integrator of a   *)
(* jump-diffusion process dX = a(x)dt + b(x)dW + xi dJ.                    *)
(*                                                                         *)
(* One invocation is a linear pass: the assertions at entry, the           *)
(* allocation of X, the initial value, the Wiener block dw, the Poisson    *)
(* block dJ, the integration loop, the return.  The ambient generator      *)
(* np.random is a stream of raw outputs; `stream` records the outputs it   *)
(* has produced since it was seeded and `pos` how many of them the current *)
(* call has consumed.  After the first call ends the generator is seeded   *)
(* again with the same seed (Reseed) and the same call is made a second    *)
(* time, so that the two outcomes can be compared.                         *)
(*                                                                         *)
(* Reals are modelled by integers: delta_t and xi are perfect squares so   *)
(* that np.sqrt is exact, and the standard normal deviates are odd so that *)
(* the Milstein correction (dw^2 - delta_t) * 0.5 is an integer.  Python's *)
(* assert statements are modelled as executed (the interpreter's default). *)
(***************************************************************************)
EXTENDS Integers, Sequences, FiniteSets

VARIABLES time, delta_t, a, b, xi, lamb, init, solver, b_prime,
          pc, length, X, dw, dJ, i, err, stream, pos, order, call, first

args == <<time, delta_t, a, b, xi, lamb, init, solver, b_prime>>
vars == <<time, delta_t, a, b, xi, lamb, init, solver, b_prime,
          pc, length, X, dw, dJ, i, err, stream, pos, order, call, first>>

\* Longest path the model integrates.
MaxLen == 3
\* Largest raw output of the generator.
MaxRaw == 2

---------------------------------------------------------------------------
\* Python values of the arguments.
None == [kind |-> "none", num |-> 0, fn |-> ""]
Num(n) == [kind |-> "num", num |-> n, fn |-> ""]
Fun(f) == [kind |-> "fun", num |-> 0, fn |-> f]
Str == [kind |-> "str", num |-> 0, fn |-> ""]

\* callable(v)
callable(v) == v.kind = "fun"

\* type(v) == int or type(v) == float
IsNumber(v) == v.kind = "num"

\* f(x) for the caller-supplied functions the model passes in.
Apply(f, x) ==
    CASE f.fn = "neg2x" -> -2 * x
      [] f.fn = "twox" -> 2 * x
      [] f.fn = "one" -> 1
      [] f.fn = "two" -> 2
      [] OTHER -> 0

\* np.sqrt on the perfect squares the model passes in.
Sqrt(n) == CHOOSE r \in 0..n : r * r = n

\* int(n / d): Python's int() truncates towards zero.
Abs(n) == IF n < 0 THEN -n ELSE n
int(n, d) ==
    IF (n < 0) = (d < 0) THEN Abs(n) \div Abs(d) ELSE -(Abs(n) \div Abs(d))

\* The raw outputs of the generator, and what np.random.normal and
\* np.random.poisson make of one.
Raw == {0, MaxRaw}
normal(raw, scale) == scale * (2 * raw - 1)
poisson(raw, lam) == IF lam = 0 THEN 0 ELSE raw

Empty == [k \in {} |-> 0]

---------------------------------------------------------------------------
\* The arguments the model calls jdprocess with.
DeltaTs == {-1, 0, 1, 4}
Times(d) ==
    LET s == IF d > 0 THEN d ELSE 1
    IN  {-1} \cup {k * s + r : k \in 0..MaxLen, r \in {0, s - 1}}
Drifts == {Fun("neg2x"), Fun("one"), Num(1)}
Diffusions == {Fun("zero"), Fun("twox"), Num(1)}
Amplitudes == {Num(4), Str}
Rates == {Num(0), Num(1), Str}
Inits == {None, Num(1), Str}
Solvers == {"Euler", "Milstein", "Heun"}
Derivatives == {None, Fun("zero"), Fun("two"), Num(1)}

Init ==
    /\ delta_t \in DeltaTs
    /\ time \in Times(delta_t)
    /\ a \in Drifts
    /\ b \in Diffusions
    /\ xi \in Amplitudes
    /\ lamb \in Rates
    /\ init \in Inits
    /\ solver \in Solvers
    /\ b_prime \in IF solver = "Milstein" THEN Derivatives ELSE {None}
    /\ pc = "entry"
    /\ length = 0
    /\ X = Empty
    /\ dw = Empty
    /\ dJ = Empty
    /\ i = 1
    /\ err = ""
    /\ stream = <<>>
    /\ pos = 0
    /\ order = <<>>
    /\ call = 1
    /\ first = [pc |-> "", err |-> "", X |-> Empty]

---------------------------------------------------------------------------
\* The generator: the next n raw outputs are those the stream already holds
\* at these positions, and fresh ones past its end.
Draws(n) ==
    {blk \in [1..n -> Raw] :
        \A k \in 1..n : pos + k <= Len(stream) => blk[k] = stream[pos + k]}

Consume(blk, n, kind) ==
    /\ stream' = IF pos + n <= Len(stream) THEN stream
                 ELSE SubSeq(stream, 1, pos) \o [k \in 1..n |-> blk[k]]
    /\ pos' = pos + n
    /\ order' = order \o [k \in 1..n |-> kind]

Fail(kind) ==
    /\ pc' = "failed"
    /\ err' = kind

\* After with the two generation statements in the other order.
AfterJumpsFirst(stage) ==
    CASE stage = "entry" -> "alloc"
      [] stage = "alloc" -> "init"
      [] stage = "init" -> "jumps"
      [] stage = "jumps" -> "noise"
      [] stage = "noise" -> "integrate"
      [] OTHER -> "returned"

\* The statement that follows each stage of the body.
After(stage) ==
    CASE stage = "entry" -> "alloc"
      [] stage = "alloc" -> "init"
      [] stage = "init" -> "noise"
      [] stage = "noise" -> "jumps"
      [] stage = "jumps" -> "integrate"
      [] OTHER -> "returned"

\* The assertions on the Milstein solver.
MilsteinOK ==
    solver = "Milstein" => (b_prime = None /\ callable(b_prime))

\* ArgsOK with the first assertion written `time >= 0`.
ArgsOKZeroTime ==
    /\ time >= 0
    /\ delta_t > 0
    /\ MilsteinOK
    /\ callable(a)
    /\ callable(b)
    /\ IsNumber(lamb)
    /\ IsNumber(xi)

\* The assertions at entry, all of them.
ArgsOK ==
    /\ time > 0
    /\ delta_t > 0
    /\ MilsteinOK
    /\ callable(a)
    /\ callable(b)
    /\ IsNumber(lamb)
    /\ IsNumber(xi)

Entry ==
    /\ pc = "entry"
    /\ IF ArgsOK
       THEN pc' = After("entry") /\ err' = err
       ELSE Fail("AssertionError")
    /\ UNCHANGED <<args, length, X, dw, dJ, i, stream, pos, order, call, first>>

\* Alloc with np.empty in place of np.zeros: X holds whatever was in memory.
AllocEmpty ==
    /\ pc = "alloc"
    /\ length' = int(time, delta_t)
    /\ X' \in [0..(length' - 1) -> {0, 1}]
    /\ pc' = After("alloc")
    /\ UNCHANGED <<args, dw, dJ, i, err, stream, pos, order, call, first>>

\* length = int(time/delta_t); X = np.zeros(length)
Alloc ==
    /\ pc = "alloc"
    /\ length' = int(time, delta_t)
    /\ X' = [k \in 0..(length' - 1) |-> 0]
    /\ pc' = After("alloc")
    /\ UNCHANGED <<args, dw, dJ, i, err, stream, pos, order, call, first>>

\* Store0 that leaves X[0] as np.zeros made it.
Store0Skipped(v) ==
    IF length = 0
    THEN Fail("IndexError") /\ X' = X
    ELSE /\ X' = X
         /\ pc' = After("init")
         /\ err' = err

\* X[0] = v, an IndexError on an array of size 0.
Store0(v) ==
    IF length = 0
    THEN Fail("IndexError") /\ X' = X
    ELSE /\ X' = [X EXCEPT ![0] = v]
         /\ pc' = After("init")
         /\ err' = err

SetInit ==
    /\ pc = "init"
    /\ IF init = None
       THEN \E blk \in Draws(1) :
               /\ Consume(blk, 1, "init")
               /\ Store0(normal(blk[1], Sqrt(delta_t)))
       ELSE /\ IF IsNumber(init)
               THEN Store0(init.num)
               ELSE Fail("AssertionError") /\ X' = X
            /\ UNCHANGED <<stream, pos, order>>
    /\ UNCHANGED <<args, length, dw, dJ, i, call, first>>

\* dw = np.random.normal(loc = 0, scale = np.sqrt(delta_t), size = length)
GenNoise ==
    /\ pc = "noise"
    /\ \E blk \in Draws(length) :
          /\ Consume(blk, length, "W")
          /\ dw' = [k \in 0..(length - 1) |->
                       normal(blk[k + 1], Sqrt(delta_t))]
    /\ pc' = After("noise")
    /\ UNCHANGED <<args, length, X, dJ, i, err, call, first>>

\* dJ = np.random.poisson(lam = lamb * delta_t, size = length)
GenJumps ==
    /\ pc = "jumps"
    /\ \E blk \in Draws(length) :
          /\ Consume(blk, length, "J")
          /\ dJ' = [k \in 0..(length - 1) |->
                       poisson(blk[k + 1], lamb.num * delta_t)]
    /\ pc' = After("jumps")
    /\ UNCHANGED <<args, length, X, dw, i, err, call, first>>

\* Euler reading the increment of the previous index.
EulerStale(k) ==
    X[k - 1] + Apply(a, X[k - 1]) * delta_t + Apply(b, X[k - 1]) * dw[k - 1]

\* The Euler-Maruyama update of index k.
Euler(k) ==
    X[k - 1] + Apply(a, X[k - 1]) * delta_t + Apply(b, X[k - 1]) * dw[k]

\* dw_2 = (dw**2 - delta_t) * 0.5
dw_2(k) == (dw[k] * dw[k] - delta_t) \div 2

\* The Milstein update of index k.
Milstein(k) ==
    X[k - 1] + Apply(a, X[k - 1]) * delta_t + Apply(b, X[k - 1]) * dw[k]
        + Apply(b, X[k - 1]) * Apply(b_prime, X[k - 1]) * dw_2(k)

\* Jump without the factor dJ[k].
JumpUnscaled(k, raw) == normal(raw, Sqrt(xi.num))

\* What a jump adds to X[k]: dJ[k] * np.random.normal(0, np.sqrt(xi)).
Jump(k, raw) == dJ[k] * normal(raw, Sqrt(xi.num))

\* Loops with the Euler loop as the branch of every other solver.
LoopsByDefault(s) == TRUE

\* The solvers that have a loop: `if solver == 'Euler'`, `if solver ==
\* 'Milstein'`.
Loops(s) == s = "Euler" \/ s = "Milstein"

\* One iteration of `for i in range(1, length)`, of either loop.
Integrate ==
    /\ pc = "integrate"
    /\ Loops(solver)
    /\ i < length
    /\ LET step == IF solver = "Milstein" THEN Milstein(i) ELSE Euler(i)
       IN  IF dJ[i] > 0
           THEN \E blk \in Draws(1) :
                   /\ Consume(blk, 1, "Z")
                   /\ X' = [X EXCEPT ![i] = step + Jump(i, blk[1])]
           ELSE /\ X' = [X EXCEPT ![i] = step]
                /\ UNCHANGED <<stream, pos, order>>
    /\ i' = i + 1
    /\ UNCHANGED <<args, pc, length, dw, dJ, err, call, first>>

\* return X
Return ==
    /\ pc = "integrate"
    /\ Loops(solver) => i >= length
    /\ pc' = After("integrate")
    /\ UNCHANGED <<args, length, X, dw, dJ, i, err, stream, pos, order,
                   call, first>>

\* What the caller sees of a call that ended.
Outcome == [pc |-> pc, err |-> err, X |-> IF pc = "returned" THEN X ELSE Empty]

\* The caller seeds the generator with the same seed and calls again.
Reseed ==
    /\ call = 1
    /\ pc \in {"returned", "failed"}
    /\ first' = Outcome
    /\ call' = 2
    /\ pc' = "entry"
    /\ length' = 0
    /\ X' = Empty
    /\ dw' = Empty
    /\ dJ' = Empty
    /\ i' = 1
    /\ err' = ""
    /\ pos' = 0
    /\ order' = <<>>
    /\ UNCHANGED <<args, stream>>

Next ==
    \/ Entry
    \/ Alloc
    \/ SetInit
    \/ GenNoise
    \/ GenJumps
    \/ Integrate
    \/ Return
    \/ Reseed

Spec == Init /\ [][Next]_vars

TypeOK ==
    /\ pc \in {"entry", "alloc", "init", "noise", "jumps", "integrate",
               "returned", "failed"}
    /\ length \in 0..(MaxLen + 1)
    /\ DOMAIN X \in {{}, 0..(length - 1)}
    /\ pos \in 0..Len(stream)
    /\ Len(order) = pos
    /\ call \in {1, 2}
    /\ err \in {"", "AssertionError", "IndexError"}

---------------------------------------------------------------------------
\* Vocabulary of the properties.

Ended == pc \in {"returned", "failed"}

\* The documented requirements on every argument but solver and b_prime.
Documented ==
    /\ time > 0
    /\ delta_t > 0
    /\ callable(a)
    /\ callable(b)
    /\ IsNumber(xi)
    /\ IsNumber(lamb)
    /\ init = None \/ IsNumber(init)

\* A violation of one of the preconditions on T, delta_t, a, b, xi, lamb, init.
Violation ==
    \/ time <= 0
    \/ delta_t <= 0
    \/ ~callable(a)
    \/ ~callable(b)
    \/ ~IsNumber(xi)
    \/ ~IsNumber(lamb)
    \/ (init # None /\ ~IsNumber(init))

\* floor(T / delta_t) for positive T and delta_t.
N == time \div delta_t

\* Number of draws that precede the Wiener block.
Lead == IF init = None THEN 1 ELSE 0

\* The k-th Wiener increment and jump count as the generator served them.
W(k) == normal(stream[Lead + k + 1], Sqrt(delta_t))
J(k) == poisson(stream[Lead + N + k + 1], lamb.num * delta_t)

\* The initial condition: init, or the first draw scaled by sqrt(delta_t).
InitialCondition ==
    IF init = None THEN normal(stream[1], Sqrt(delta_t)) ELSE init.num

\* Number of indices in 1..k with a jump.
JumpsUpTo(k) == Cardinality({j \in 1..k : dJ[j] > 0})

---------------------------------------------------------------------------
\* C1: every call with T > 0, delta_t > 0 and otherwise valid arguments,
\* T < delta_t included, returns a path of length exactly floor(T/delta_t).
\* (Stated for the default solver; Milstein calls are the subject of C2.)
C1_LengthIsFloor ==
    (Documented /\ solver = "Euler" /\ Ended) =>
        (pc = "returned" /\ DOMAIN X = 0..(N - 1))

\* C2: with the Milstein solver and all other arguments valid, the call fails
\* with an invalid-argument failure when b_prime is None or not callable, and
\* runs to completion returning a path when b_prime is a callable.
C2_MilsteinNeedsDerivative ==
    (Documented /\ time >= delta_t /\ solver = "Milstein" /\ Ended) =>
        IF callable(b_prime)
        THEN pc = "returned"
        ELSE pc = "failed" /\ err = "AssertionError"

\* C3: a call that violates a precondition on T, delta_t, a, b, xi, lamb or
\* init never gets past the assertions: it consumes no draw, writes nothing to
\* X, generates neither block, returns no path, and the failure it ends in is
\* the AssertionError; only the check of init is made after the allocation.
C3_ViolationFailsBeforeDraws ==
    Violation =>
        /\ pos = 0
        /\ order = <<>>
        /\ dw = Empty
        /\ dJ = Empty
        /\ \A k \in DOMAIN X : X[k] = 0
        /\ pc \in {"entry", "alloc", "init", "failed"}
        /\ pc \in {"alloc", "init"} => ArgsOK
        /\ pc = "failed" => err = "AssertionError"

C3_Witness ==
    /\ pc = "failed"
    /\ ArgsOK
    /\ init = Str
    /\ length = MaxLen

\* C4: with the Euler solver and every jump count 0, every index k in 1..N-1
\* of the returned path is X[k-1] + a(X[k-1])*delta_t + b(X[k-1])*W[k], W[k]
\* the k-th increment of the Wiener block.
C4_EulerMaruyama ==
    (pc = "returned" /\ solver = "Euler" /\ \A k \in 0..(N - 1) : J(k) = 0) =>
        \A k \in 1..(N - 1) :
            X[k] = X[k - 1] + Apply(a, X[k - 1]) * delta_t
                       + Apply(b, X[k - 1]) * W(k)

C4_Witness ==
    /\ pc = "returned"
    /\ solver = "Euler"
    /\ lamb = Num(0)
    /\ b = Fun("twox")
    /\ length = MaxLen
    /\ W(1) # W(2)
    /\ X[2] # X[1]

\* C5: with the Milstein solver, b and b_prime identically 0 and lamb = 0, the
\* call returns a path with X[k] = X[k-1] + a(X[k-1])*delta_t for k in 1..N-1.
C5_MilsteinDriftOnly ==
    (/\ Documented /\ time >= delta_t /\ solver = "Milstein" /\ lamb = Num(0)
     /\ b = Fun("zero") /\ b_prime = Fun("zero") /\ Ended) =>
        /\ pc = "returned"
        /\ \A k \in 1..(N - 1) :
              X[k] = X[k - 1] + Apply(a, X[k - 1]) * delta_t

\* C6: index 0 of a returned path is init when init is given and the first
\* draw of the stream otherwise; when T = delta_t the loop makes no iteration
\* and the path is that one value.
C6_InitialCondition ==
    pc = "returned" =>
        /\ X[0] = InitialCondition
        /\ time = delta_t => (DOMAIN X = {0} /\ i = 1 /\ pos = Lead + 2)

C6_Witness ==
    /\ pc = "returned"
    /\ time = delta_t
    /\ init = None
    /\ solver = "Euler"
    /\ X[0] # 0

\* C7: the draws of a call are, in this order, the draw of the initial
\* condition (when init is None), the N Wiener increments, the N jump counts,
\* and then the draws of the loop; both blocks are whole before the loop
\* writes an index >= 1.
C7_DrawOrder ==
    /\ \A p \in 1..Len(order) :
          order[p] = IF p <= Lead THEN "init"
                     ELSE IF p <= Lead + length THEN "W"
                     ELSE IF p <= Lead + 2 * length THEN "J"
                     ELSE "Z"
    /\ Len(order) < Lead + 2 * length =>
          /\ Len(order) \in {0, Lead, Lead + length}
          /\ i = 1
          /\ \A k \in DOMAIN X : k >= 1 => X[k] = 0
    /\ i > 1 =>
          /\ DOMAIN dw = 0..(length - 1)
          /\ DOMAIN dJ = 0..(length - 1)

C7_Witness ==
    /\ pc = "returned"
    /\ init = None
    /\ length = MaxLen
    /\ Len(order) = 1 + 2 * MaxLen + 1
    /\ order[Len(order)] = "Z"

\* C8: a second call with the same arguments, made after the generator is
\* seeded again with the same seed, ends as the first did: the same path,
\* element by element, or the same failure.
C8_Determinism ==
    (call = 2 /\ Ended) => Outcome = first

C8_Witness ==
    /\ call = 2
    /\ pc = "returned"
    /\ init = None
    /\ length = MaxLen
    /\ dJ[1] > 0
    /\ first.X = X
    /\ X[2] # 0

===========================================================================
